---- MODULE Spec2Model ----
(***************************************************************************)
(* A model of emilator.py: the LLIL interpreter's register file, memory    *)
(* access, expression visitor and stepping driver.                         *)
(*                                                                         *)
(* Python integers are unbounded; the model keeps every value below 2^31   *)
(* by describing a 16-bit architecture (2-byte full-width registers with   *)
(* 1-byte sub-registers).  Python's True/False are the integers 1/0, as in *)
(* Python itself.  A dict is a function whose DOMAIN is the set of keys.   *)
(***************************************************************************)
EXTENDS Integers, Sequences, FiniteSets, TLC

\* ------------------------------------------------------------ integers
\* Python's <<, >> (floor), &, |, ^ on unbounded two's-complement integers.
Shl(a, n) == a * (2 ^ n)

Shr(a, n) == a \div (2 ^ n)

RECURSIVE BitAnd(_, _)
BitAnd(a, b) ==
    IF a = 0 \/ b = 0 THEN 0
    ELSE IF a = -1 THEN b
    ELSE IF b = -1 THEN a
    ELSE ((a % 2) * (b % 2)) + 2 * BitAnd(a \div 2, b \div 2)

RECURSIVE BitOr(_, _)
BitOr(a, b) ==
    IF a = 0 THEN b
    ELSE IF b = 0 THEN a
    ELSE IF a = -1 \/ b = -1 THEN -1
    ELSE (IF (a % 2) + (b % 2) > 0 THEN 1 ELSE 0) + 2 * BitOr(a \div 2, b \div 2)

RECURSIVE BitXor(_, _)
BitXor(a, b) ==
    IF a = 0 THEN b
    ELSE IF b = 0 THEN a
    ELSE IF a = -1 THEN (0 - b) - 1
    ELSE IF b = -1 THEN (0 - a) - 1
    ELSE (((a % 2) + (b % 2)) % 2) + 2 * BitXor(a \div 2, b \div 2)

\* sign_extend(value, bits)
sign_extend(value, bits) ==
    LET sign_bit == Shl(1, bits - 1)
    IN  BitAnd(value, sign_bit - 1) - BitAnd(value, sign_bit)

\* ------------------------------------------------------- architecture
\* The register descriptors the architecture collaborator supplies
\* (arch.regs): size and offset in bytes, the full-width parent, and the
\* ImplicitRegisterExtend policy.  "ax" and "sp" are full-width; the others
\* alias "ax".
NoExtend == "NoExtend"

ZeroExtendToFullWidth == "ZeroExtendToFullWidth"

SignExtendToFullWidth == "SignExtendToFullWidth"

arch_regs ==
    [ax  |-> [size |-> 2, offset |-> 0, full_width_reg |-> "ax", extend |-> NoExtend],
     sp  |-> [size |-> 2, offset |-> 0, full_width_reg |-> "sp", extend |-> NoExtend],
     al  |-> [size |-> 1, offset |-> 0, full_width_reg |-> "ax", extend |-> NoExtend],
     ah  |-> [size |-> 1, offset |-> 1, full_width_reg |-> "ax", extend |-> NoExtend],
     az  |-> [size |-> 1, offset |-> 0, full_width_reg |-> "ax", extend |-> ZeroExtendToFullWidth],
     as  |-> [size |-> 1, offset |-> 0, full_width_reg |-> "ax", extend |-> SignExtendToFullWidth],
     ahz |-> [size |-> 1, offset |-> 1, full_width_reg |-> "ax", extend |-> ZeroExtendToFullWidth]]

ArchRegs == DOMAIN arch_regs

FullWidthRegs == {r \in ArchRegs : arch_regs[r].full_width_reg = r}

SubRegs == ArchRegs \ FullWidthRegs

\* arch.stack_pointer
stack_pointer == "sp"

\* Temporary registers: the indices LLIL_REG_IS_TEMP accepts.
Temps == {"t0", "t1"}

LLIL_REG_IS_TEMP(index) == index \in Temps

\* ---------------------------------------------------------------- dict
\* d[k] = v
DictSet(d, k, v) == [x \in (DOMAIN d) \cup {k} |-> IF x = k THEN v ELSE d[x]]

\* d.get(k): <<>> stands for None, <<v>> for the value v.
DictGet(d, k) == IF k \in DOMAIN d THEN <<d[k]>> ELSE <<>>

EmptyDict == [x \in {} |-> 0]

\* ----------------------------------------------------- register file
\* The outcome of a call: the store afterwards, the value returned and the
\* exception raised ("None" when the call returns).
RegOutcome(regs, ret, exc) == [regs |-> regs, ret |-> ret, exc |-> exc]

\* if value < 0: value = value + (1 << reg_info.size * 8)
NormalizeValue(reg_info, value) ==
    IF value < 0 THEN value + Shl(1, reg_info.size * 8) ELSE value

\* A guard that forgets the sub-register's offset.
PartialWriteUndefinedNoOffset(reg_info, full_width_reg_value) ==
    /\ full_width_reg_value = <<>>
    /\ reg_info.extend = NoExtend

\* The partial-write guard: no value for the parent, and the policy is
\* NoExtend or the offset is not 0.
PartialWriteUndefined(reg_info, full_width_reg_value) ==
    /\ full_width_reg_value = <<>>
    /\ (reg_info.extend = NoExtend \/ reg_info.offset # 0)

\* A zero-extension that fills the upper bits with the sign bit.
ZeroExtendValueSigned(reg_info, full_width_reg_info, value) ==
    IF BitAnd(value, Shl(1, reg_info.size * 8 - 1)) # 0
    THEN value + (Shl(1, full_width_reg_info.size * 8) - Shl(1, reg_info.size * 8))
    ELSE value

\* The ZeroExtendToFullWidth branch.
ZeroExtendValue(reg_info, full_width_reg_info, value) == value

\* The SignExtendToFullWidth branch.
SignExtendValue(reg_info, full_width_reg_info, value) ==
    (BitXor(value, Shl(1, reg_info.size * 8) - 1)
        - (Shl(1, reg_info.size * 8) - 1))
        + Shl(1, full_width_reg_info.size * 8)

\* The NoExtend branch.
NoExtendValue(reg_info, full_width_reg_info, full_width_reg_value, value) ==
    LET mask      == Shl(1, reg_info.size * 8) - 1
        full_mask == Shl(1, full_width_reg_info.size * 8) - 1
        reg_bits  == Shl(mask, reg_info.offset * 8)
        cleared   == BitAnd(full_width_reg_value, BitXor(full_mask, reg_bits))
    IN  BitOr(cleared, Shl(value, reg_info.offset * 8))

set_register_value(regs, register, value) ==
    IF register.form = "index" /\ LLIL_REG_IS_TEMP(register.id)
    THEN RegOutcome(DictSet(regs, register.id, value), value, "None")
    ELSE IF register.form = "ILRegister" /\ LLIL_REG_IS_TEMP(register.id)
    THEN RegOutcome(DictSet(regs, register.id, value), value, "None")
    ELSE
      LET name     == register.id
          reg_info == arch_regs[name]
          nvalue   == NormalizeValue(reg_info, value)
      IN  IF name = reg_info.full_width_reg
          THEN RegOutcome(DictSet(regs, name, nvalue), nvalue, "None")
          ELSE
            LET full_width_reg_info  == arch_regs[reg_info.full_width_reg]
                key                  == full_width_reg_info.full_width_reg
                full_width_reg_value == DictGet(regs, key)
            IN  IF PartialWriteUndefined(reg_info, full_width_reg_value)
                THEN RegOutcome(regs, 0, "UndefinedError")
                ELSE
                  LET new_value ==
                        IF reg_info.extend = ZeroExtendToFullWidth
                        THEN ZeroExtendValue(reg_info, full_width_reg_info, nvalue)
                        ELSE IF reg_info.extend = SignExtendToFullWidth
                        THEN SignExtendValue(reg_info, full_width_reg_info, nvalue)
                        ELSE NoExtendValue(reg_info, full_width_reg_info,
                                           full_width_reg_value[1], nvalue)
                  IN  RegOutcome(DictSet(regs, key, new_value), new_value, "None")

\* A lookup under the register's own name.
LookupKeyOwnName(register_name) == register_name

\* The key get_register_value looks up: reg_info.full_width_reg.
LookupKey(register_name) == arch_regs[register_name].full_width_reg

\* A slice whose mask is not moved to the register's offset.
RegisterSliceUnshiftedMask(reg_info, full_reg_value) ==
    LET mask == Shl(1, reg_info.size * 8) - 1
    IN  Shr(BitAnd(full_reg_value, mask), reg_info.offset * 8)

\* The bits [offset*8, offset*8 + size*8) of the full-width value.
RegisterSlice(reg_info, full_reg_value) ==
    LET mask     == Shl(1, reg_info.size * 8) - 1
        reg_bits == Shl(mask, reg_info.offset * 8)
    IN  Shr(BitAnd(full_reg_value, reg_bits), reg_info.offset * 8)

get_register_value(regs, register) ==
    IF register.form \in {"index", "ILRegister"} /\ LLIL_REG_IS_TEMP(register.id)
    THEN LET reg_value == DictGet(regs, register.id)
         IN  IF reg_value = <<>>
             THEN RegOutcome(regs, 0, "UndefinedError")
             ELSE RegOutcome(regs, reg_value[1], "None")
    ELSE
      LET name           == register.id
          reg_info       == arch_regs[name]
          full_reg_value == DictGet(regs, LookupKey(name))
      IN  IF full_reg_value = <<>>
          THEN RegOutcome(regs, 0, "UndefinedError")
          ELSE
            LET mask == Shl(1, reg_info.size * 8) - 1
            IN  IF name = reg_info.full_width_reg
                THEN RegOutcome(regs, BitAnd(full_reg_value[1], mask), "None")
                ELSE RegOutcome(regs, RegisterSlice(reg_info, full_reg_value[1]), "None")

\* --------------------------------------------------------------- state
VARIABLES
    regs,            \* self._regs
    flags,           \* self._flags
    memory,          \* self._memory: address -> byte, over the mapped addresses
    function_hooks,  \* self._function_hooks
    function,        \* self._function: the name of the active instruction stream
    instr_index,     \* self.instr_index
    endianness,      \* arch.endianness
    native_long,     \* the host's sizeof(unsigned long), which struct's native mode uses
    native_order,    \* the host's byte order, which struct's native mode uses
    run_state,       \* where the run() generator is: Ready, Stepping, Halted, Faulted
    last,            \* the last call the caller made, with what it returned or raised
    written,         \* history: the store keys a register write has succeeded on
    shadow,          \* history: the pushes not yet popped, oldest first
    find             \* the frame of a running _find_available_segment call

vars == <<regs, flags, memory, function_hooks, function, instr_index,
          endianness, native_long, native_order, run_state, last, written,
          shadow, find>>

\* -------------------------------------------------------------- memory
\* fmt = {1: 'B', 2: 'H', 4: 'L', 8: 'Q'}: the lengths it has a format for.
fmt == {1, 2, 4, 8}

LittleEndian == "LittleEndian"

BigEndian == "BigEndian"

\* The segments of the view the interpreter is constructed over.
view_segments == {[start |-> 16, length |-> 12]}

MappedAddresses ==
    UNION {{s.start + i : i \in 0..(s.length - 1)} : s \in view_segments}

\* Memory.__contains__(addr): some segment covers the address.
MemoryContains(mem, addr) == addr \in DOMAIN mem

\* Memory.read(addr, length): the bytes, or a failure when the range is
\* not covered.
MemoryRead(mem, addr, length) ==
    IF \A i \in 0..(length - 1) : (addr + i) \in DOMAIN mem
    THEN [ok |-> TRUE, bytes |-> [i \in 1..length |-> mem[addr + i - 1]]]
    ELSE [ok |-> FALSE, bytes |-> <<>>]

\* Memory.write(addr, data): the memory afterwards, or a failure when the
\* range is not covered.
MemoryWrite(mem, addr, data) ==
    IF \A i \in 0..(Len(data) - 1) : (addr + i) \in DOMAIN mem
    THEN [ok |-> TRUE,
          mem |-> [a \in DOMAIN mem |->
                     IF a >= addr /\ a < addr + Len(data)
                     THEN data[a - addr + 1] ELSE mem[a]]]
    ELSE [ok |-> FALSE, mem |-> mem]

\* pack_fmt = ('<' if arch.endianness == LittleEndian else '') + fmt[length].
\* With '<' the sizes are the standard ones and the order little-endian;
\* with no prefix struct uses the host's sizes ('L' is an unsigned long)
\* and the host's byte order.
calcsize(length) ==
    IF endianness = LittleEndian THEN length
    ELSE IF length = 4 THEN native_long ELSE length

pack_order ==
    IF endianness = LittleEndian THEN "little" ELSE native_order

RECURSIVE LittleBytes(_, _)
LittleBytes(value, n) ==
    IF n = 0 THEN <<>> ELSE <<value % 256>> \o LittleBytes(value \div 256, n - 1)

RECURSIVE FromLittleBytes(_)
FromLittleBytes(bytes) ==
    IF bytes = <<>> THEN 0 ELSE bytes[1] + 256 * FromLittleBytes(Tail(bytes))

Reverse(seq) == [i \in 1..Len(seq) |-> seq[Len(seq) + 1 - i]]

\* struct.pack(pack_fmt, data): the bytes, or struct.error when data does
\* not fit.  Values of the model are below 2^31, so they fit 4 and 8 bytes.
struct_pack(length, data) ==
    LET size == calcsize(length)
        fits == data >= 0 /\ (size >= 4 \/ data < Shl(1, size * 8))
        le   == LittleBytes(data, size)
    IN  IF fits
        THEN [ok |-> TRUE, bytes |-> IF pack_order = "little" THEN le ELSE Reverse(le)]
        ELSE [ok |-> FALSE, bytes |-> <<>>]

\* struct.unpack(pack_fmt, bytes)[0]: struct.error unless len(bytes) is
\* calcsize(pack_fmt).
struct_unpack(length, bytes) ==
    IF Len(bytes) # calcsize(length)
    THEN [ok |-> FALSE, value |-> 0]
    ELSE [ok |-> TRUE,
          value |-> FromLittleBytes(IF pack_order = "little" THEN bytes
                                    ELSE Reverse(bytes))]

MemOutcome(mem, ret, exc) == [mem |-> mem, ret |-> ret, exc |-> exc]

read_memory(mem, addr, length) ==
    IF length \notin fmt THEN MemOutcome(mem, 0, "ValueError")
    ELSE IF ~MemoryContains(mem, addr) THEN MemOutcome(mem, 0, "MemoryAccessError")
    ELSE
      LET data == MemoryRead(mem, addr, length)
          un   == struct_unpack(length, data.bytes)
      IN  IF data.ok /\ un.ok
          THEN MemOutcome(mem, un.value, "None")
          ELSE MemOutcome(mem, 0, "MemoryAccessError")

\* A write that reports success at an address no segment covers.
write_memory_IgnoresUnmapped(mem, addr, data, length) ==
    IF ~MemoryContains(mem, addr) THEN MemOutcome(mem, 1, "None")
    ELSE IF length \notin {1, 2, 4, 8} THEN MemOutcome(mem, 0, "KeyError")
    ELSE
      LET packed == struct_pack(length, data)
          wrote  == MemoryWrite(mem, addr, packed.bytes)
      IN  IF ~packed.ok THEN MemOutcome(mem, 0, "struct.error")
          ELSE IF ~wrote.ok THEN MemOutcome(mem, 0, "MemoryAccessError")
          ELSE MemOutcome(wrote.mem, 1, "None")

\* write_memory(addr, data, length) with an integer for data.
write_memory(mem, addr, data, length) ==
    IF ~MemoryContains(mem, addr) THEN MemOutcome(mem, 0, "MemoryAccessError")
    ELSE IF length \notin {1, 2, 4, 8} THEN MemOutcome(mem, 0, "KeyError")
    ELSE
      LET packed == struct_pack(length, data)
          wrote  == MemoryWrite(mem, addr, packed.bytes)
      IN  IF ~packed.ok THEN MemOutcome(mem, 0, "struct.error")
          ELSE IF ~wrote.ok THEN MemOutcome(mem, 0, "MemoryAccessError")
          ELSE MemOutcome(wrote.mem, 1, "None")

\* ------------------------------------------------------------- visitor
\* The interpreter as the visitor sees it, with the log of what one step
\* did to its collaborators (hooks invoked, view functions consulted, stack
\* transfers).
Interp(r, f, m, fn, ix, ev) ==
    [regs |-> r, flags |-> f, memory |-> m, function |-> fn,
     instr_index |-> ix, events |-> ev]

Ok(st, val) == [st |-> st, val |-> val, exc |-> "None"]

Raise(st, exc) == [st |-> st, val |-> 0, exc |-> exc]

Log(st, event) == [st EXCEPT !.events = Append(@, event)]

\* The ways a caller names a register: an ILRegister object (temporary or
\* architectural), a register name, or a temporary's integer index.
ILReg(name) == [form |-> "ILRegister", id |-> name]

RegName(name) == [form |-> "name", id |-> name]

TempIndex(name) == [form |-> "index", id |-> name]

\* A register or memory call made on the interpreter: its result, or the
\* exception it raised.
LiftRegs(st, out) ==
    IF out.exc = "None" THEN Ok([st EXCEPT !.regs = out.regs], out.ret)
    ELSE Raise(st, out.exc)

LiftMemory(st, out) ==
    IF out.exc = "None" THEN Ok([st EXCEPT !.memory = out.mem], out.ret)
    ELSE Raise(st, out.exc)

SetReg(st, register, value) ==
    LiftRegs(st, set_register_value(st.regs, register, value))

GetReg(st, register) == LiftRegs(st, get_register_value(st.regs, register))

ReadMem(st, addr, length) ==
    LiftMemory(st, read_memory(st.memory, addr, length))

WriteMem(st, addr, data, length) ==
    LiftMemory(st, write_memory(st.memory, addr, data, length))

\* Sequencing: an exception raised by a sub-expression ends the
\* evaluation of the node; otherwise the node goes on with its outcome.
Then(out, Continue(_)) == IF out.exc # "None" THEN out ELSE Continue(out)

\* The functions the view knows (get_function_at), and the addresses at
\* which create_user_function and the analysis produce one.
view_functions == [x \in {80} |-> "callee"]

view_creatable == [x \in {96} |-> "created"]

\* The hooks the embedding code registers: each is called with the
\* interpreter and acts on it through its public interface.
Hooks == {"hook_nop", "hook_set_ax", "hook_goto", "hook_index_error"}

HookCall(hook, st) ==
    CASE hook = "hook_nop"    -> Ok(st, 0)
      [] hook = "hook_set_ax" -> SetReg(st, RegName("ax"), 66)
      [] hook = "hook_goto"   -> Ok([st EXCEPT !.instr_index = 0], 0)
      [] hook = "hook_index_error" -> Raise(st, "IndexError")

\* The truth value of a Python object used as a condition.
Truthy(val) == val # 0

Bool(b) == IF b THEN 1 ELSE 0

RECURSIVE visit(_, _)

\* Evaluate expr.left, then expr.right, and combine the two values.
Binary(Combine(_, _), expr, st) ==
    Then(visit(expr.left, st), LAMBDA l :
    Then(visit(expr.right, l.st), LAMBDA r :
    Ok(r.st, Combine(l.val, r.val))))

visit_LLIL_SET_REG(expr, st) ==
    Then(visit(expr.src, st), LAMBDA v :
    Then(SetReg(v.st, expr.dest, v.val), LAMBDA w :
    Ok(w.st, 1)))

visit_LLIL_CONST(expr, st) == Ok(st, expr.constant)

visit_LLIL_REG(expr, st) == GetReg(st, expr.src)

visit_LLIL_LOAD(expr, st) ==
    Then(visit(expr.src, st), LAMBDA a :
    ReadMem(a.st, a.val, expr.size))

visit_LLIL_STORE(expr, st) ==
    Then(visit(expr.dest, st), LAMBDA a :
    Then(visit(expr.src, a.st), LAMBDA v :
    WriteMem(v.st, a.val, v.val, expr.size)))

visit_LLIL_PUSH(expr, st) ==
    Then(visit(expr.src, st), LAMBDA v :
    Then(GetReg(v.st, RegName(stack_pointer)), LAMBDA g :
    Then(WriteMem(g.st, g.val, v.val, expr.size), LAMBDA w :
    SetReg(Log(w.st, [ev |-> "push", size |-> expr.size, value |-> v.val,
                      sp |-> g.val]),
           RegName(stack_pointer), g.val - expr.size))))

visit_LLIL_POP(expr, st) ==
    Then(GetReg(st, RegName(stack_pointer)), LAMBDA g :
    Then(ReadMem(g.st, g.val + expr.size, expr.size), LAMBDA r :
    Then(SetReg(r.st, RegName(stack_pointer), g.val + expr.size), LAMBDA w :
    Ok(Log(w.st, [ev |-> "pop", size |-> expr.size, value |-> r.val,
                  sp |-> g.val]),
       r.val))))

visit_LLIL_GOTO(expr, st) ==
    Ok([st EXCEPT !.instr_index = expr.dest], expr.dest)

\* An If that takes the false target when the condition holds.
visit_LLIL_IF_Swapped(expr, st) ==
    Then(visit(expr.condition, st), LAMBDA c :
    IF Truthy(c.val)
    THEN Ok([c.st EXCEPT !.instr_index = expr.false], c.val)
    ELSE Ok([c.st EXCEPT !.instr_index = expr.true], c.val))

visit_LLIL_IF(expr, st) ==
    Then(visit(expr.condition, st), LAMBDA c :
    IF Truthy(c.val)
    THEN Ok([c.st EXCEPT !.instr_index = expr.true], c.val)
    ELSE Ok([c.st EXCEPT !.instr_index = expr.false], c.val))

CmpNe(left, right) == Bool(left # right)

CmpE(left, right) == Bool(left = right)

CmpUgt(left, right) == Bool(left > right)

\* The operand read as a signed number of the node's width.
Signed(size, x) ==
    IF BitAnd(x, Shl(1, size * 8 - 1)) # 0 THEN x - Shl(1, size * 8) ELSE x

visit_LLIL_CMP_SLT(expr, st) ==
    Binary(LAMBDA left, right :
               Bool(Signed(expr.size, left) < Signed(expr.size, right)),
           expr, st)

visit_LLIL_ADD(expr, st) ==
    Binary(LAMBDA left, right :
               BitAnd(left + right, Shl(1, expr.size * 8) - 1),
           expr, st)

Sub(left, right) == left - right

visit_LLIL_SET_FLAG(expr, st) ==
    Then(visit(expr.src, st), LAMBDA v :
    Ok([v.st EXCEPT !.flags = DictSet(@, expr.dest, v.val)], v.val))

visit_LLIL_FLAG(expr, st) ==
    Ok(st, IF expr.src \in DOMAIN st.flags THEN st.flags[expr.src] ELSE 0)

visit_LLIL_RET(expr, st) == Raise(st, "StopIteration")

\* The branch of visit_LLIL_CALL taken when the target is in the registry.
CallHooked(hooks, target, st) ==
    Then(HookCall(hooks[target],
                  Log(st, [ev |-> "hook", address |-> target,
                           hook |-> hooks[target]])),
         LAMBDA h : Ok(h.st, 1))

\* get_function_at(target), and when it finds nothing
\* create_user_function(target), the analysis and get_function_at again:
\* the stream found (<<>> for none) and the calls made on the view.
Resolve(target) ==
    IF target \in DOMAIN view_functions
    THEN [found |-> <<view_functions[target]>>,
          calls |-> <<[ev |-> "get_function_at", address |-> target]>>]
    ELSE [found |-> DictGet(view_creatable, target),
          calls |-> <<[ev |-> "get_function_at", address |-> target],
                      [ev |-> "create_user_function", address |-> target],
                      [ev |-> "get_function_at", address |-> target]>>]

\* A switch of streams that keeps the index of the caller.
CallResolvedKeepsIndex(resolved, st) ==
    IF resolved.found = <<>>
    THEN Raise([st EXCEPT !.events = @ \o resolved.calls], "AttributeError")
    ELSE Ok([st EXCEPT !.events = @ \o resolved.calls,
                       !.function = resolved.found[1]], 1)

\* The branch taken otherwise: ask the view, switch the active stream.
CallResolved(resolved, st) ==
    IF resolved.found = <<>>
    THEN Raise([st EXCEPT !.events = @ \o resolved.calls], "AttributeError")
    ELSE Ok([st EXCEPT !.events = @ \o resolved.calls,
                       !.function = resolved.found[1],
                       !.instr_index = 0], 1)

\* A call that goes on to resolve the target after its hook returned.
visit_LLIL_CALL_FallThrough(hooks, expr, st) ==
    Then(visit(expr.dest, st), LAMBDA t :
    IF t.val \in DOMAIN hooks
    THEN Then(CallHooked(hooks, t.val, t.st), LAMBDA h :
              CallResolved(Resolve(t.val), h.st))
    ELSE CallResolved(Resolve(t.val), t.st))

visit_LLIL_CALL(hooks, expr, st) ==
    Then(visit(expr.dest, st), LAMBDA t :
    IF t.val \in DOMAIN hooks
    THEN CallHooked(hooks, t.val, t.st)
    ELSE CallResolved(Resolve(t.val), t.st))

visit_LLIL_SX(expr, st) ==
    Then(visit(expr.src, st), LAMBDA v :
    Ok(v.st, BitAnd(v.val, Shl(1, expr.size * 8 - 1) - 1)
                 - BitAnd(v.val, Shl(1, expr.size * 8 - 1))))

visit_LLIL_ZX(expr, st) == visit(expr.src, st)

visit_LLIL_LSL(expr, st) ==
    Binary(LAMBDA left, right :
               BitAnd(Shl(left, right), Shl(1, expr.size * 8) - 1),
           expr, st)

\* LLILVisitor.visit: dispatch on the operation's name.
visit(expr, st) ==
    CASE expr.op = "LLIL_SET_REG"   -> visit_LLIL_SET_REG(expr, st)
      [] expr.op = "LLIL_CONST"     -> visit_LLIL_CONST(expr, st)
      [] expr.op = "LLIL_CONST_PTR" -> visit_LLIL_CONST(expr, st)
      [] expr.op = "LLIL_REG"       -> visit_LLIL_REG(expr, st)
      [] expr.op = "LLIL_LOAD"      -> visit_LLIL_LOAD(expr, st)
      [] expr.op = "LLIL_STORE"     -> visit_LLIL_STORE(expr, st)
      [] expr.op = "LLIL_PUSH"      -> visit_LLIL_PUSH(expr, st)
      [] expr.op = "LLIL_POP"       -> visit_LLIL_POP(expr, st)
      [] expr.op = "LLIL_GOTO"      -> visit_LLIL_GOTO(expr, st)
      [] expr.op = "LLIL_IF"        -> visit_LLIL_IF(expr, st)
      [] expr.op = "LLIL_CMP_NE"    -> Binary(CmpNe, expr, st)
      [] expr.op = "LLIL_CMP_E"     -> Binary(CmpE, expr, st)
      [] expr.op = "LLIL_CMP_SLT"   -> visit_LLIL_CMP_SLT(expr, st)
      [] expr.op = "LLIL_CMP_UGT"   -> Binary(CmpUgt, expr, st)
      [] expr.op = "LLIL_ADD"       -> visit_LLIL_ADD(expr, st)
      [] expr.op = "LLIL_AND"       -> Binary(BitAnd, expr, st)
      [] expr.op = "LLIL_OR"        -> Binary(BitOr, expr, st)
      [] expr.op = "LLIL_SUB"       -> Binary(Sub, expr, st)
      [] expr.op = "LLIL_SET_FLAG"  -> visit_LLIL_SET_FLAG(expr, st)
      [] expr.op = "LLIL_FLAG"      -> visit_LLIL_FLAG(expr, st)
      [] expr.op = "LLIL_RET"       -> visit_LLIL_RET(expr, st)
      [] expr.op = "LLIL_CALL"      -> visit_LLIL_CALL(function_hooks, expr, st)
      [] expr.op = "LLIL_SX"        -> visit_LLIL_SX(expr, st)
      [] expr.op = "LLIL_ZX"        -> visit_LLIL_ZX(expr, st)
      [] expr.op = "LLIL_XOR"       -> Binary(BitXor, expr, st)
      [] expr.op = "LLIL_LSL"       -> visit_LLIL_LSL(expr, st)
      [] expr.op = "LLIL_LSR"       -> Binary(Shr, expr, st)

\* The values callers pass to the register API: in and out of a 1-byte
\* register's range, and negative.
RegValues == {-1, 0, 1, 128, 255, 511}

\* The register writes and reads the embedding code makes.
RegWrites ==
    [register : [form : {"name"}, id : ArchRegs \ {stack_pointer}],
     value : RegValues]
        \cup [register : {RegName("ax")}, value : {4660}]
        \cup [register : {ILReg("al"), RegName(stack_pointer)}, value : {16}]
        \cup {[register |-> ILReg("t0"), value |-> -1],
              [register |-> TempIndex("t1"), value |-> 7]}

RegReads ==
    [form : {"name"}, id : ArchRegs]
        \cup {ILReg("al"), ILReg("t0"), ILReg("t1"),
              TempIndex("t0"), TempIndex("t1")}

\* The key a register's value is meant to live under: a temporary's own
\* index, an architectural register's full-width parent.
ParentOf(register) ==
    IF LLIL_REG_IS_TEMP(register.id) THEN register.id
    ELSE arch_regs[register.id].full_width_reg

\* emi.set_register_value(register, value), called by the embedding code.
SetRegisterValue(register, value) ==
    LET out == set_register_value(regs, register, value)
    IN  /\ regs' = out.regs
        /\ written' = IF out.exc = "None" THEN written \cup {ParentOf(register)}
                      ELSE written
        /\ last' = [op |-> "set_register_value", register |-> register,
                    value |-> value, ret |-> out.ret, exc |-> out.exc,
                    pre |-> regs, written |-> written]
        /\ shadow' = IF ParentOf(register) = stack_pointer THEN <<>> ELSE shadow
        /\ UNCHANGED <<flags, memory, function_hooks, function, instr_index,
                       endianness, native_long, native_order, run_state, find>>

\* emi.get_register_value(register), called by the embedding code.
GetRegisterValue(register) ==
    LET out == get_register_value(regs, register)
    IN  /\ regs' = out.regs
        /\ last' = [op |-> "get_register_value", register |-> register,
                    ret |-> out.ret, exc |-> out.exc, pre |-> regs,
                    written |-> written]
        /\ UNCHANGED <<flags, memory, function_hooks, function, instr_index,
                       endianness, native_long, native_order, run_state,
                       written, shadow, find>>

\* emi.register_function_hook(function, hook)
RegisterFunctionHook(address, hook) ==
    /\ function_hooks' = DictSet(function_hooks, address, hook)
    /\ last' = [op |-> "register_function_hook", address |-> address,
                hook |-> hook]
    /\ UNCHANGED <<regs, flags, memory, function, instr_index, endianness,
                   native_long, native_order, run_state, written, shadow, find>>

\* emi.write_memory(addr, data, length), called by the embedding code.
WriteMemory(addr, data, length) ==
    LET out == write_memory(memory, addr, data, length)
    IN  /\ memory' = out.mem
        /\ last' = [op |-> "write_memory", addr |-> addr, data |-> data,
                    length |-> length, ret |-> out.ret, exc |-> out.exc,
                    pre |-> memory]
        /\ UNCHANGED <<regs, flags, function_hooks, function, instr_index,
                       endianness, native_long, native_order, run_state,
                       written, shadow, find>>

\* emi.read_memory(addr, length), called by the embedding code.
ReadMemory(addr, length) ==
    LET out == read_memory(memory, addr, length)
    IN  /\ memory' = out.mem
        /\ last' = [op |-> "read_memory", addr |-> addr, length |-> length,
                    ret |-> out.ret, exc |-> out.exc, pre |-> memory]
        /\ UNCHANGED <<regs, flags, function_hooks, function, instr_index,
                       endianness, native_long, native_order, run_state,
                       written, shadow, find>>

\* emi.unregister_function_hook(function, hook): the body is `pass`.
UnregisterFunctionHook(address, hook) ==
    /\ last' = [op |-> "unregister_function_hook", address |-> address,
                hook |-> hook, hooks |-> function_hooks]
    /\ UNCHANGED <<regs, flags, memory, function_hooks, function, instr_index,
                   endianness, native_long, native_order, run_state, written,
                   shadow, find>>

\* ------------------------------------------------------------ programs
Const(c) == [op |-> "LLIL_CONST", size |-> 2, constant |-> c]

Reg(name) == [op |-> "LLIL_REG", size |-> 2, src |-> ILReg(name)]

SetRegister(name, src) ==
    [op |-> "LLIL_SET_REG", size |-> 2, dest |-> ILReg(name), src |-> src]

SizedConst(size, c) == [op |-> "LLIL_CONST", size |-> size, constant |-> c]

\* A two-operand node: Add, Sub, And, Or, Xor, Lsl, Lsr.
Arith(op, size, left, right) ==
    [op |-> op, size |-> size, left |-> left, right |-> right]

SignExtend(size, src) == [op |-> "LLIL_SX", size |-> size, src |-> src]

Load(size, src) == [op |-> "LLIL_LOAD", size |-> size, src |-> src]

Store(size, dest, src) ==
    [op |-> "LLIL_STORE", size |-> size, dest |-> dest, src |-> src]

Push(size, src) == [op |-> "LLIL_PUSH", size |-> size, src |-> src]

Pop(size) == [op |-> "LLIL_POP", size |-> size]

Goto(dest) == [op |-> "LLIL_GOTO", dest |-> dest]

If(condition, true, false) ==
    [op |-> "LLIL_IF", condition |-> condition, true |-> true, false |-> false]

CmpEqual(left, right) ==
    [op |-> "LLIL_CMP_E", size |-> 2, left |-> left, right |-> right]

Call(dest) == [op |-> "LLIL_CALL", dest |-> dest]

Ret == [op |-> "LLIL_RET"]

\* How many pushes, then as many pops, the stack program makes.
NumPushes == 2

\* The address the embedding code hooks.
HookAddress == 64

\* The instruction streams: the functions an interpreter is constructed
\* over and the ones a call resolves to ("callee", "created").
streams ==
    [stack   |-> [i \in 1..NumPushes |-> Push(2, Const(4660 + i))]
                 \o [i \in 1..NumPushes |->
                       SetRegister(IF i = 1 THEN "t0" ELSE "ax", Pop(2))]
                 \o <<Ret>>,
     stack4  |-> <<Push(4, Const(4660)), SetRegister("t0", Pop(4)), Ret>>,
     flow    |-> <<SetRegister("ax", Const(1)),
                   If(CmpEqual(Reg("ax"), Const(1)), 3, 5),
                   Goto(4),
                   Const(7),
                   Goto(6)>>,
     branch  |-> <<If(CmpEqual(Reg("ax"), Const(1)), 2, 3),
                   Ret,
                   Goto(1),
                   Goto(2)>>,
     calls   |-> <<Call(Const(HookAddress)), Call(Reg("ax")), Ret>>,
     tail    |-> <<Call(Const(HookAddress))>>,
     callee  |-> <<SetRegister("ax", Const(2)), Ret>>,
     created |-> <<Ret>>,
     load    |-> <<SetRegister("t0", Load(2, Reg("ax"))), Ret>>,
     store   |-> <<Store(2, Reg("ax"), Const(4660)), Ret>>,
     push    |-> <<Push(2, Const(4660)), Ret>>,
     pop     |-> <<SetRegister("t0", Pop(2)), Ret>>]

\* The functions the control-flow and stack programs start in, and the ones
\* that make one memory access each.
EntryFunctions == {"stack", "stack4", "flow", "branch", "calls", "tail"}

MemoryFunctions == {"load", "store", "push", "pop"}

\* ------------------------------------------------------------ stepping
\* execute_instruction(): fetch at instr_index (IndexError outside the
\* stream), increment, visit.
execute_instruction_NoIncrement(st) ==
    LET stream == streams[st.function]
    IN  IF st.instr_index < 0 \/ st.instr_index >= Len(stream)
        THEN Raise(st, "IndexError")
        ELSE visit(stream[st.instr_index + 1], st)

execute_instruction(st) ==
    LET stream == streams[st.function]
    IN  IF st.instr_index < 0 \/ st.instr_index >= Len(stream)
        THEN Raise(st, "IndexError")
        ELSE visit(stream[st.instr_index + 1],
                   [st EXCEPT !.instr_index = @ + 1])

\* A generator that yields after a Return as after any instruction.
RunOutcomeReturnYields(out) ==
    IF out.exc \in {"None", "StopIteration"} THEN "Stepping"
    ELSE IF out.exc = "IndexError"
    THEN IF out.st.instr_index >= Len(streams[out.st.function])
         THEN "Halted" ELSE "Faulted"
    ELSE "Faulted"

\* What the generator of run() does with the outcome of one
\* execute_instruction(): yield, end (StopIteration) or let the error out.
RunOutcome(out) ==
    IF out.exc = "None" THEN "Stepping"
    ELSE IF out.exc = "IndexError"
    THEN IF out.st.instr_index >= Len(streams[out.st.function])
         THEN "Halted" ELSE "Faulted"
    ELSE IF out.exc = "StopIteration" THEN "Halted"
    ELSE "Faulted"

RECURSIVE ShadowAfter(_, _)
\* The pushes outstanding after a step's stack transfers.
ShadowAfter(sh, events) ==
    IF events = <<>> THEN sh
    ELSE LET e == Head(events)
         IN  IF e.ev = "push"
             THEN ShadowAfter(Append(sh, [size |-> e.size, value |-> e.value,
                                          sp |-> e.sp]), Tail(events))
             ELSE IF e.ev = "pop" /\ sh # <<>>
             THEN ShadowAfter(SubSeq(sh, 1, Len(sh) - 1), Tail(events))
             ELSE ShadowAfter(sh, Tail(events))

\* next() on the generator run() returns: one execute_instruction().
RunStep ==
    /\ run_state \in {"Ready", "Stepping"}
    /\ LET st  == Interp(regs, flags, memory, function, instr_index, <<>>)
           out == execute_instruction(st)
       IN  /\ regs' = out.st.regs
           /\ flags' = out.st.flags
           /\ memory' = out.st.memory
           /\ function' = out.st.function
           /\ instr_index' = out.st.instr_index
           /\ run_state' = RunOutcome(out)
           /\ written' = written \cup (DOMAIN out.st.regs)
           /\ shadow' = IF out.exc = "None" THEN ShadowAfter(shadow, out.st.events)
                        ELSE <<>>
           /\ last' = [op |-> "execute_instruction", function |-> function,
                       index |-> instr_index, ret |-> out.val, exc |-> out.exc,
                       events |-> out.st.events, pre |-> regs,
                       hooks |-> function_hooks, shadow |-> shadow]
    /\ UNCHANGED <<function_hooks, endianness, native_long, native_order, find>>

\* next() on the generator after it ended or raised: a finished generator
\* raises StopIteration and runs none of its body.
RunExhausted ==
    /\ run_state \in {"Halted", "Faulted"}
    /\ last' = [op |-> "next", exc |-> "StopIteration", state |-> run_state]
    /\ UNCHANGED <<regs, flags, memory, function_hooks, function, instr_index,
                   endianness, native_long, native_order, run_state, written,
                   shadow, find>>

\* ------------------------------------------------------ specifications
\* The hosts struct's native mode depends on; it is read only when the
\* architecture is big-endian.
Hosts == {[long |-> 8, order |-> "little"], [long |-> 4, order |-> "little"],
          [long |-> 8, order |-> "big"]}

\* The state after Emilator(function, view).
Init ==
    /\ regs = EmptyDict
    /\ flags = EmptyDict
    /\ memory = [a \in MappedAddresses |-> 0]
    /\ function_hooks = EmptyDict
    /\ function \in EntryFunctions \cup MemoryFunctions
    /\ instr_index = 0
    /\ endianness \in {LittleEndian, BigEndian}
    /\ \E h \in Hosts :
          /\ native_long = h.long
          /\ native_order = h.order
          /\ (endianness = LittleEndian => h = [long |-> 8, order |-> "little"])
    /\ run_state = "Ready"
    /\ last = [op |-> "init"]
    /\ written = {}
    /\ shadow = <<>>
    /\ find = [pc |-> "idle"]

\* The register file driven through its interface alone.
RegInit == Init /\ function = "flow" /\ endianness = LittleEndian

Next ==
    \/ \E w \in RegWrites : SetRegisterValue(w.register, w.value)
    \/ \E register \in RegReads : GetRegisterValue(register)

Spec == RegInit /\ [][Next]_vars

\* The embedding code sets up registers and hooks, then runs.
SetupWrites ==
    [register : {RegName("ax")}, value : {1, 5, HookAddress, 80, 96, 100}]
        \cup [register : {RegName("sp")}, value : {16, 20, 24}]

ExecNext ==
    \/ \E w \in SetupWrites :
          run_state = "Ready" /\ SetRegisterValue(w.register, w.value)
    \/ \E hook \in Hooks :
          run_state = "Ready" /\ RegisterFunctionHook(HookAddress, hook)
    \/ \E hook \in Hooks :
          run_state = "Ready" /\ UnregisterFunctionHook(HookAddress, hook)
    \/ RunStep
    \/ RunExhausted

ExecInit == Init /\ function \in EntryFunctions

ExecSpec == ExecInit /\ [][ExecNext]_vars

\* The evaluator applied to one node: emi.visit(expr).
Visit(expr) ==
    LET out == visit(expr, Interp(regs, flags, memory, function, instr_index,
                                  <<>>))
    IN  /\ regs' = out.st.regs
        /\ flags' = out.st.flags
        /\ memory' = out.st.memory
        /\ function' = out.st.function
        /\ instr_index' = out.st.instr_index
        /\ written' = written \cup (DOMAIN out.st.regs)
        /\ last' = [op |-> "visit", expr |-> expr, ret |-> out.val,
                    exc |-> out.exc]
        /\ UNCHANGED <<function_hooks, endianness, native_long, native_order,
                       run_state, shadow, find>>

\* The unsigned values of a width the nodes are evaluated on, and the
\* shift counts.
Operands(size) ==
    IF size = 1 THEN {0, 1, 2, 127, 128, 255}
    ELSE {0, 1, 255, 256, 32768, 65535}

ShiftCounts == {0, 1, 7, 8}

ArithOps == {"LLIL_ADD", "LLIL_SUB", "LLIL_AND", "LLIL_OR", "LLIL_XOR"}

ShiftOps == {"LLIL_LSL", "LLIL_LSR"}

\* The nodes evaluated: arithmetic and shifts of 1 and 2 bytes on constant
\* operands, and sign extensions of a 1-byte constant to 2 bytes.
EvalNodes ==
    UNION {{Arith(op, size, SizedConst(size, l), SizedConst(size, r)) :
               op \in ArithOps, l \in Operands(size), r \in Operands(size)}
           \cup {Arith(op, size, SizedConst(size, l), SizedConst(size, r)) :
                    op \in ShiftOps, l \in Operands(size), r \in ShiftCounts}
              : size \in {1, 2}}
        \cup {SignExtend(2, SizedConst(1, s)) : s \in Operands(1)}

EvalNext == \E expr \in EvalNodes : Visit(expr)

EvalSpec == RegInit /\ [][EvalNext]_vars

\* ---------------------------------------------------- free-region search
\* arch.address_size, in bytes.
address_size == 2

\* self._view.get_segment_at(addr): the segment covering addr (<<>> for
\* None).  A segment's end is start + length.
get_segment_at(segments, addr) ==
    IF \E seg \in segments : seg.start <= addr /\ addr < seg.start + seg.length
    THEN <<CHOOSE seg \in segments :
               seg.start <= addr /\ addr < seg.start + seg.length>>
    ELSE <<>>

\* One evaluation of the while condition of _find_available_segment and,
\* when it holds, of the loop's body, on the frame f of the call.
FindIteration(f) ==
    LET max_address == Shl(1, address_size * 8) - 1
        align_mask  == Shl(1, address_size * 8) - f.align
        segment     == get_segment_at(f.segments, f.current_address)
        segment_end == f.current_address + f.size - 1
    IN  IF ~(f.current_address < max_address - f.size)
        THEN [f EXCEPT !.pc = "done"]
        ELSE IF segment # <<>>
        THEN [f EXCEPT !.current_address =
                 BitAnd(segment[1].start + segment[1].length + f.align,
                        align_mask)]
        ELSE IF get_segment_at(f.segments, segment_end) = <<>>
        THEN [f EXCEPT !.new_segment = <<f.current_address>>, !.pc = "done"]
        ELSE f

\* emi._find_available_segment(size, align) is called on a view holding
\* `segments`.
FindStart(segments, size, align) ==
    /\ find.pc \in {"idle", "done"}
    /\ find' = [pc |-> "loop", segments |-> segments, size |-> size,
                align |-> align, current_address |-> 0, new_segment |-> <<>>]
    /\ UNCHANGED <<regs, flags, memory, function_hooks, function, instr_index,
                   endianness, native_long, native_order, run_state, last,
                   written, shadow>>

\* The call goes once round its loop; at "done" it returns new_segment.
FindIterate ==
    /\ find.pc = "loop"
    /\ find' = FindIteration(find)
    /\ UNCHANGED <<regs, flags, memory, function_hooks, function, instr_index,
                   endianness, native_long, native_order, run_state, last,
                   written, shadow>>

\* The segment layouts of the view (none overlapping), the sizes and the
\* alignments the search is called with.
Layouts ==
    {{}, view_segments,
     {[start |-> 0, length |-> 4]},
     {[start |-> 4, length |-> 4]},
     {[start |-> 2, length |-> 1]},
     {[start |-> 0, length |-> 4], [start |-> 8, length |-> 4]},
     {[start |-> 0, length |-> 65536]}}

FindSizes == {1, 2, 4, 6, 4096}

FindAligns == {1, 4}

FindNext ==
    \/ \E segments \in Layouts, size \in FindSizes, align \in FindAligns :
          FindStart(segments, size, align)
    \/ FindIterate

FindSpec == RegInit /\ [][FindNext]_vars

\* The memory interface: the embedding code writes and reads memory and
\* sets ax and sp, then runs a function that makes one memory access.
\* Addresses 8 and 28 lie outside the view's segment [16, 28).
MemWrites ==
    {[addr |-> 16, data |-> 171, length |-> 1],
     [addr |-> 16, data |-> 4660, length |-> 2],
     [addr |-> 20, data |-> 195948557, length |-> 4],
     [addr |-> 16, data |-> 195948557, length |-> 8],
     [addr |-> 8, data |-> 1, length |-> 4]}

MemReads ==
    {[addr |-> 16, length |-> 1], [addr |-> 16, length |-> 2],
     [addr |-> 20, length |-> 4], [addr |-> 28, length |-> 2]}

MemSetupWrites ==
    [register : {RegName("ax")}, value : {8, 20}]
        \cup [register : {RegName("sp")}, value : {20, 26, 28}]

MemNext ==
    \/ \E w \in MemWrites :
          run_state = "Ready" /\ WriteMemory(w.addr, w.data, w.length)
    \/ \E r \in MemReads :
          run_state = "Ready" /\ ReadMemory(r.addr, r.length)
    \/ \E w \in MemSetupWrites :
          run_state = "Ready" /\ SetRegisterValue(w.register, w.value)
    \/ RunStep

MemInit == Init /\ function \in MemoryFunctions

MemSpec == MemInit /\ [][MemNext]_vars

\* ------------------------------------------------- register-file claims
LastIsSet == last.op = "set_register_value"

LastIsGet == last.op = "get_register_value"

\* The last call named an architectural sub-register.
LastOnSubRegister == last.register.id \in SubRegs

LastInfo == arch_regs[last.register.id]

LastParent == arch_regs[last.register.id].full_width_reg

LastParentInfo == arch_regs[LastParent]

\* v is an unsigned value of the register's width.
InRange(reg_info, v) == v >= 0 /\ v < 2 ^ (8 * reg_info.size)

\* What get_register_value(parent) returns in a store.
ParentValue(store) == get_register_value(store, RegName(LastParent))

\* The sign-extension of an unsigned value of `bits` bits to `full_bits`.
SignExtension(v, bits, full_bits) ==
    IF v >= 2 ^ (bits - 1) THEN v + (2 ^ full_bits - 2 ^ bits) ELSE v

\* C1: after set_register_value(r, v) on a SignExtendToFullWidth
\* sub-register at offset 0 with v in r's range, get_register_value of the
\* parent is the sign-extension of v to the parent's width.
C1_SignExtendOnWrite ==
    (/\ LastIsSet
     /\ LastOnSubRegister
     /\ LastInfo.extend = SignExtendToFullWidth
     /\ LastInfo.offset = 0
     /\ InRange(LastInfo, last.value))
    => /\ last.exc = "None"
       /\ ParentValue(regs).exc = "None"
       /\ ParentValue(regs).ret =
             SignExtension(last.value, 8 * LastInfo.size, 8 * LastParentInfo.size)

\* C2: after set_register_value(r, v) on a ZeroExtendToFullWidth
\* sub-register at offset 0 with v in r's range, get_register_value of the
\* parent is exactly v, whatever the parent held before.
C2_ZeroExtendOnWrite ==
    (/\ LastIsSet
     /\ LastOnSubRegister
     /\ LastInfo.extend = ZeroExtendToFullWidth
     /\ LastInfo.offset = 0
     /\ InRange(LastInfo, last.value))
    => /\ last.exc = "None"
       /\ ParentValue(regs).exc = "None"
       /\ ParentValue(regs).ret = last.value

\* A zero-extending write of 255 over a parent whose upper byte was set.
C2_Witness ==
    /\ LastIsSet
    /\ last.register.id = "az"
    /\ last.value = 255
    /\ last.exc = "None"
    /\ "ax" \in DOMAIN last.pre
    /\ last.pre["ax"] >= 256

\* C3: a NoExtend write to a sub-register whose parent holds P leaves every
\* bit of P outside [offset*8, offset*8 + size*8) unchanged and puts v in
\* those bits, for every v passed.
C3_NoExtendPreservesOtherBits ==
    (/\ LastIsSet
     /\ LastOnSubRegister
     /\ LastInfo.extend = NoExtend
     /\ LastParent \in DOMAIN last.pre)
    => LET P  == ParentValue(last.pre).ret
           N  == ParentValue(regs).ret
           lo == 8 * LastInfo.offset
           hi == lo + 8 * LastInfo.size
       IN  /\ last.exc = "None"
           /\ N % (2 ^ lo) = P % (2 ^ lo)
           /\ N \div (2 ^ hi) = P \div (2 ^ hi)
           /\ (N \div (2 ^ lo)) % (2 ^ (8 * LastInfo.size))
                 = last.value % (2 ^ (8 * LastInfo.size))

\* C4: get_register_value of an architectural register whose parent holds
\* P returns (P >> offset*8) mod 2^(8*size) (P mod 2^(8*size) for the
\* full-width register itself), and the call changes no register, flag,
\* memory or index state.
C4_ReadIsBitSlice ==
    [][last'.op = "get_register_value"
        => /\ UNCHANGED <<regs, flags, memory, function, instr_index,
                          function_hooks>>
           /\ (last'.register.id \in ArchRegs /\ last'.exc = "None")
                 => LET info == arch_regs[last'.register.id]
                        P    == regs[info.full_width_reg]
                    IN  last'.ret = (P \div (2 ^ (8 * info.offset)))
                                        % (2 ^ (8 * info.size))]_vars

\* A read of the upper byte that returns a non-zero slice.
C4_Witness ==
    /\ LastIsGet
    /\ last.register.id = "ah"
    /\ last.exc = "None"
    /\ last.ret = 255
    /\ regs["ax"] % 256 # 255

\* C5: a successful set_register_value(r, v) with v in r's range is read
\* back by get_register_value(r), and the store is keyed only by full-width
\* registers and temporaries.
C5_AliasConsistency ==
    /\ DOMAIN regs \subseteq (FullWidthRegs \cup Temps)
    /\ (/\ LastIsSet
        /\ last.register.id \in ArchRegs
        /\ InRange(LastInfo, last.value)
        /\ last.exc = "None")
       => /\ get_register_value(regs, last.register).exc = "None"
          /\ get_register_value(regs, last.register).ret = last.value

\* C6: a write to a sub-register whose parent was never written raises
\* UndefinedError exactly when the policy is NoExtend or the offset is not
\* 0, and then leaves the store as it was; otherwise it succeeds and
\* defines the parent.
C6_PartialWriteNeedsBase ==
    (/\ LastIsSet
     /\ LastOnSubRegister
     /\ LastParent \notin last.written)
    => /\ last.exc \in {"None", "UndefinedError"}
       /\ (last.exc = "UndefinedError")
             <=> (LastInfo.extend = NoExtend \/ LastInfo.offset # 0)
       /\ last.exc = "UndefinedError" => regs = last.pre
       /\ last.exc = "None" => LastParent \in DOMAIN regs

\* A zero-extending sub-register at offset 1 written before its parent.
C6_Witness ==
    /\ LastIsSet
    /\ last.register.id = "ahz"
    /\ last.exc = "UndefinedError"
    /\ "ax" \notin last.written

\* C7: get_register_value raises UndefinedError, and returns nothing,
\* exactly when the temporary, or the architectural register's full-width
\* parent, was never written.
C7_UndefinedReadFails ==
    LastIsGet
    => /\ last.exc \in {"None", "UndefinedError"}
       /\ (last.exc = "UndefinedError") <=> (ParentOf(last.register) \notin last.written)

\* A sub-register read after its parent was written through another alias.
C7_Witness ==
    /\ LastIsGet
    /\ last.register.id = "al"
    /\ last.exc = "None"
    /\ "ax" \in last.written
    /\ \E t \in Temps : t \notin last.written

\* ---------------------------------------------------- stepping claims
LastIsStep == last.op = "execute_instruction"

\* The last step fetched an instruction (its index was inside the stream).
LastFetched ==
    /\ LastIsStep
    /\ last.index >= 0
    /\ last.index < Len(streams[last.function])

LastInstr == streams[last.function][last.index + 1]

\* The Pop the last instruction evaluates, when it is SetReg(_, Pop(size)).
LastPops ==
    /\ LastFetched
    /\ LastInstr.op = "LLIL_SET_REG"
    /\ LastInstr.src.op = "LLIL_POP"

StackPointerValue(store) == get_register_value(store, RegName(stack_pointer))

\* C8: a Pop of the width of the latest outstanding Push returns the value
\* pushed and leaves the stack pointer where it was before that Push, so
\* pushes followed by as many pops come back in reverse order.
C8_PushPopSymmetry ==
    (/\ LastPops
     /\ last.shadow # <<>>
     /\ last.shadow[Len(last.shadow)].size = LastInstr.src.size)
    => LET top == last.shadow[Len(last.shadow)]
       IN  /\ last.exc = "None"
           /\ last.events = <<[ev |-> "pop", size |-> top.size,
                               value |-> top.value,
                               sp |-> top.sp - top.size]>>
           /\ StackPointerValue(regs).ret = top.sp

\* The target a Call of the programs evaluates to: a constant, or ax.
CallTarget(instr, store) ==
    IF instr.dest.op = "LLIL_CONST" THEN <<instr.dest.constant>>
    ELSE IF get_register_value(store, instr.dest.src).exc = "None"
    THEN <<get_register_value(store, instr.dest.src).ret>>
    ELSE <<>>

\* C9: a step that executes If leaves the instruction index at the true
\* target when the condition (here ax == 1) holds and at the false target
\* otherwise; a step that executes Goto leaves it at the target; the
\* spec's stream has index 3 after its If.
C9_ControlFlow ==
    (LastFetched /\ last.exc = "None")
    => /\ LastInstr.op = "LLIL_IF"
             => /\ Truthy(last.ret) <=> (get_register_value(last.pre, RegName("ax")).ret = 1)
                /\ instr_index = IF Truthy(last.ret) THEN LastInstr.true
                                 ELSE LastInstr.false
       /\ LastInstr.op = "LLIL_GOTO" => instr_index = LastInstr.dest
       /\ (last.function = "flow" /\ last.index = 1) => instr_index = 3

\* The If of the spec's stream, taken to its true target.
C9_Witness ==
    /\ LastFetched
    /\ last.function = "flow"
    /\ last.index = 1
    /\ last.exc = "None"
    /\ last.ret = 1
    /\ instr_index = 3

\* C10: a Call whose target has a hook registered invokes that hook once,
\* on the interpreter, asks the view nothing, keeps the active stream, and
\* leaves the index at the pre-incremented value unless the hook moves it.
C10_CallHook ==
    (/\ LastFetched
     /\ LastInstr.op = "LLIL_CALL"
     /\ CallTarget(LastInstr, last.pre) # <<>>
     /\ CallTarget(LastInstr, last.pre)[1] \in DOMAIN last.hooks)
    => LET target == CallTarget(LastInstr, last.pre)[1]
           hook   == last.hooks[target]
       IN  /\ last.exc = IF hook = "hook_index_error" THEN "IndexError" ELSE "None"
           /\ last.events = <<[ev |-> "hook", address |-> target, hook |-> hook]>>
           /\ function = last.function
           /\ hook # "hook_goto" => instr_index = last.index + 1
           /\ hook = "hook_goto" => instr_index = 0
           /\ hook = "hook_set_ax" => regs = DictSet(last.pre, "ax", 66)
           /\ hook # "hook_set_ax" => regs = last.pre

\* The hook that writes ax, invoked by Call(Const(HookAddress)).
C10_Witness ==
    /\ LastFetched
    /\ LastInstr = Call(Const(HookAddress))
    /\ last.hooks = [x \in {HookAddress} |-> "hook_set_ax"]
    /\ last.events = <<[ev |-> "hook", address |-> HookAddress,
                        hook |-> "hook_set_ax"]>>
    /\ regs["ax"] = 66
    /\ instr_index = 1

\* The step being taken is an execute_instruction().
Stepping == last'.op = "execute_instruction"

\* The index is inside the active stream, so the step fetches.
StepFetches == instr_index >= 0 /\ instr_index < Len(streams[function])

\* The instruction the step fetches.
CurrentInstr == streams[function][instr_index + 1]

\* The step evaluates a Call whose target has no hook registered.
StepCallsUnhooked ==
    /\ Stepping
    /\ StepFetches
    /\ CurrentInstr.op = "LLIL_CALL"
    /\ CallTarget(CurrentInstr, regs) # <<>>
    /\ CallTarget(CurrentInstr, regs)[1] \notin DOMAIN function_hooks

\* The last step was a successful Call of a target without a hook.
LastCalledUnhooked ==
    /\ LastFetched
    /\ LastInstr.op = "LLIL_CALL"
    /\ last.exc = "None"
    /\ CallTarget(LastInstr, last.pre)[1] \notin DOMAIN last.hooks

\* C11: a step that evaluates a Call whose target has no hook replaces the
\* active stream by the one resolved for the target and sets the index to
\* 0, leaving registers, flags and memory alone, so the step after it
\* executes instruction 0 of the callee; nothing is kept to return to (a
\* Return in the callee halts there); when nothing resolves the step
\* raises and the active stream stays.
C11_UnhookedCallSwitchesStream ==
    [][/\ StepCallsUnhooked
          => LET found == Resolve(CallTarget(CurrentInstr, regs)[1]).found
             IN  /\ UNCHANGED <<regs, flags, memory, function_hooks>>
                 /\ found # <<>>
                       => /\ last'.exc = "None"
                          /\ function' = found[1]
                          /\ instr_index' = 0
                          /\ run_state' = "Stepping"
                 /\ found = <<>>
                       => /\ last'.exc \notin {"None", "StopIteration"}
                          /\ function' = function
                          /\ run_state' = "Faulted"
       /\ (LastCalledUnhooked /\ Stepping)
          => /\ last'.function = function
             /\ last'.index = 0
             /\ function # last.function
       /\ (Stepping /\ StepFetches /\ CurrentInstr.op = "LLIL_RET")
          => /\ function' = function
             /\ run_state' = "Halted"]_vars

\* Instruction 0 of the callee, executed by the step after the call.
C11_Witness ==
    /\ LastFetched
    /\ last.function = "callee"
    /\ last.index = 0
    /\ last.exc = "None"
    /\ regs["ax"] = 2
    /\ instr_index = 1

\* C12: an execute_instruction() that fetches at index i does to the
\* interpreter what evaluating the instruction at i of the active stream
\* once does, and unless that instruction is a Goto, If or Call the index
\* afterwards is i + 1 in the same stream.
C12_OneInstructionPerStep ==
    [][(Stepping /\ StepFetches)
        => LET out == visit(CurrentInstr,
                            Interp(regs, flags, memory, function,
                                   instr_index + 1, <<>>))
           IN  /\ last'.function = function
               /\ last'.index = instr_index
               /\ last'.exc = out.exc
               /\ last'.ret = out.val
               /\ regs' = out.st.regs
               /\ flags' = out.st.flags
               /\ memory' = out.st.memory
               /\ CurrentInstr.op \notin {"LLIL_GOTO", "LLIL_IF", "LLIL_CALL"}
                     => /\ instr_index' = instr_index + 1
                        /\ function' = function]_vars

\* The second pop of the stack program: index 2 * NumPushes - 1 to the
\* next.
C12_Witness ==
    /\ LastFetched
    /\ last.function = "stack"
    /\ last.index = 2 * NumPushes - 1
    /\ LastInstr.op = "LLIL_SET_REG"
    /\ last.exc = "None"
    /\ instr_index = 2 * NumPushes

\* C13: a step that evaluates Return, or that finds the index at or past
\* the end of the active stream, ends the run (Halted); once the run is
\* Halted or Faulted no instruction is executed and registers, flags,
\* memory, stream and index stay as they are.
C13_Halting ==
    [][/\ (Stepping /\ StepFetches /\ CurrentInstr.op = "LLIL_RET")
          => run_state' = "Halted"
       /\ (Stepping /\ instr_index >= Len(streams[function]))
          => /\ run_state' = "Halted"
             /\ UNCHANGED <<regs, flags, memory, function, instr_index>>
       /\ run_state \in {"Halted", "Faulted"}
          => /\ ~Stepping
             /\ UNCHANGED <<regs, flags, memory, function, instr_index,
                            function_hooks, run_state>>]_vars

\* next() on the run that ended by running past the end of "flow".
C13_Witness ==
    /\ last.op = "next"
    /\ last.state = "Halted"
    /\ run_state = "Halted"
    /\ function = "flow"
    /\ instr_index = 6

\* C14: an error raised while a step evaluates the instruction it fetched
\* reaches the caller and leaves the run Faulted, wherever in the stream
\* the instruction is.
C14_ErrorsSurface ==
    (LastFetched /\ last.exc \notin {"None", "StopIteration"})
    => run_state = "Faulted"

\* C20: after unregister_function_hook(a, h) on a registry that maps a to
\* h, the registry no longer maps a to h.
C20_UnregisterRemovesHook ==
    (/\ last.op = "unregister_function_hook"
     /\ last.address \in DOMAIN last.hooks
     /\ last.hooks[last.address] = last.hook)
    => ~(/\ last.address \in DOMAIN function_hooks
         /\ function_hooks[last.address] = last.hook)

\* --------------------------------------------------------- memory claims
\* C15: write_memory(a, v, n) at a mapped address, with n in {1,2,4,8},
\* [a, a+n) inside the segment and v in [0, 2^(8n)), succeeds, is read back
\* as v by read_memory(a, n), and changes no byte outside [a, a+n), under
\* little-endian and big-endian architectures alike.
C15_MemoryRoundTrip ==
    (/\ last.op = "write_memory"
     /\ last.length \in {1, 2, 4, 8}
     /\ \A i \in 0..(last.length - 1) : (last.addr + i) \in MappedAddresses
     /\ last.data >= 0
     /\ (last.length < 4 => last.data < 2 ^ (8 * last.length)))
    => /\ last.exc = "None"
       /\ read_memory(memory, last.addr, last.length).exc = "None"
       /\ read_memory(memory, last.addr, last.length).ret = last.data
       /\ \A a \in MappedAddresses :
             (a < last.addr \/ a >= last.addr + last.length)
                => memory[a] = last.pre[a]

\* The register a memory node of the programs takes its address from.
AddressOperand(node) ==
    CASE node.op = "LLIL_LOAD"  -> node.src.src
      [] node.op = "LLIL_STORE" -> node.dest.src
      [] OTHER                  -> RegName(stack_pointer)

\* The Load, Store, Push or Pop the fetched instruction evaluates.
MemoryNode(instr) ==
    IF instr.op = "LLIL_SET_REG" THEN instr.src ELSE instr

\* The step evaluates a memory node whose address register is defined.
StepAccessesMemory ==
    /\ Stepping
    /\ StepFetches
    /\ MemoryNode(CurrentInstr).op
          \in {"LLIL_LOAD", "LLIL_STORE", "LLIL_PUSH", "LLIL_POP"}
    /\ get_register_value(regs, AddressOperand(MemoryNode(CurrentInstr))).exc
          = "None"

\* The address the node reads or writes: the register's value, for a Pop
\* the stack pointer plus the node's width.
EffectiveAddress ==
    LET node == MemoryNode(CurrentInstr)
        base == get_register_value(regs, AddressOperand(node)).ret
    IN  IF node.op = "LLIL_POP" THEN base + node.size ELSE base

\* C16: read_memory and write_memory at an address no segment covers raise
\* MemoryAccessError and leave memory as it was, and a step whose Load,
\* Store, Push or Pop has such an effective address faults with that error
\* and leaves memory as it was.
C16_UnmappedAccessFails ==
    [][/\ (last'.op \in {"read_memory", "write_memory"}
           /\ last'.addr \notin MappedAddresses)
          => /\ last'.exc = "MemoryAccessError"
             /\ UNCHANGED <<memory, regs, flags, function, instr_index>>
       /\ (StepAccessesMemory /\ EffectiveAddress \notin MappedAddresses)
          => /\ last'.exc = "MemoryAccessError"
             /\ run_state' = "Faulted"
             /\ UNCHANGED <<memory, regs, flags>>]_vars

\* A Pop whose stack pointer is in the segment and whose read is not.
C16_Witness ==
    /\ LastFetched
    /\ last.function = "pop"
    /\ last.index = 0
    /\ last.exc = "MemoryAccessError"
    /\ regs["sp"] = 26
    /\ run_state = "Faulted"

\* ------------------------------------------------------ evaluator claims
LastIsVisit == last.op = "visit"

\* The mathematical result of a two-operand node on left and right.
Exact(op, left, right) ==
    CASE op = "LLIL_ADD" -> left + right
      [] op = "LLIL_SUB" -> left - right
      [] op = "LLIL_AND" -> BitAnd(left, right)
      [] op = "LLIL_OR"  -> BitOr(left, right)
      [] op = "LLIL_XOR" -> BitXor(left, right)
      [] op = "LLIL_LSL" -> left * (2 ^ right)

\* C17: an Add, Sub, And, Or, Xor or Lsl node of width size on operands in
\* [0, 2^(8*size)) evaluates to the mathematical result modulo 2^(8*size),
\* a value in [0, 2^(8*size)).
C17_ArithmeticModuloWidth ==
    (/\ LastIsVisit
     /\ last.expr.op \in ArithOps \cup {"LLIL_LSL"}
     /\ InRange(last.expr, last.expr.left.constant)
     /\ InRange(last.expr, last.expr.right.constant))
    => /\ last.exc = "None"
       /\ InRange(last.expr, last.ret)
       /\ last.ret = Exact(last.expr.op, last.expr.left.constant,
                           last.expr.right.constant)
                         % (2 ^ (8 * last.expr.size))

\* C18: an SX node of width n on a source of width w < n with value s in
\* [0, 2^(8w)) evaluates to the sign-extension of s from w to n bytes.
C18_SignExtendNode ==
    (/\ LastIsVisit
     /\ last.expr.op = "LLIL_SX"
     /\ last.expr.src.size < last.expr.size
     /\ InRange(last.expr.src, last.expr.src.constant))
    => /\ last.exc = "None"
       /\ last.ret = SignExtension(last.expr.src.constant,
                                   8 * last.expr.src.size, 8 * last.expr.size)

\* ---------------------------------------------------------- search claim
\* C19: the free-region search terminates (every turn of its loop leaves
\* the loop or moves the address it examines, the loop being deterministic)
\* and the address it returns starts a region of the requested size inside
\* the address space that overlaps no existing segment.
C19_SearchBoundedAndCorrect ==
    /\ find.pc = "loop" => FindIteration(find) # find
    /\ (find.pc = "done" /\ find.new_segment # <<>>)
          => /\ find.new_segment[1] + find.size <= 2 ^ (8 * address_size)
             /\ \A seg \in find.segments :
                   \/ seg.start + seg.length <= find.new_segment[1]
                   \/ find.new_segment[1] + find.size <= seg.start

====
